---------------------------- MODULE Spec2Model ----------------------------
(***************************************************************************)
(* A model of the iBoardBot robot driver (src/src/robot.rs): the command   *)
(* codec, the sketch compiler, and the serial thread with its intake       *)
(* channel, pending block queue and scheduled print jobs.                  *)
(*                                                                         *)
(* Coordinates are f64 millimetres in the code.  The model takes them from *)
(* the grid of tenths of a millimetre and writes the point (x, y) as the   *)
(* pair of integers <<10x, 10y>>.                                          *)
(*                                                                         *)
(* A block is a byte vector in the code.  The serial thread's queue holds  *)
(* each block as the pair [d, k]: block k of into_blocks(Drawings[d],      *)
(* TRUE); BlockBytes gives its bytes.                                      *)
(***************************************************************************)
EXTENDS Integers, Sequences, FiniteSets, TLC

(***************************************************************************)
(* Program constants                                                       *)
(***************************************************************************)
IBB_WIDTH == 358

IBB_HEIGHT == 123

BLOCK_SIZE == 768

Y_STEP == 10

BLOCK_NUMBER_LIMIT == 4000

WAIT_LIMIT == 30

(***************************************************************************)
(* Bounds of the model                                                     *)
(***************************************************************************)
\* Tasks the clients send over the intake channel.
MaxTasks == 2

\* Firings the scheduler starts, over all jobs.
MaxFirings == 2

\* Polylines in an input of the compiler specification.
MaxPolylines == 2

(***************************************************************************)
(* Integer helpers: u16 / u8 arithmetic of Command::to_bytes               *)
(***************************************************************************)
RECURSIVE BitOr(_, _)
BitOr(a, b) ==
    IF a = 0 THEN b
    ELSE IF b = 0 THEN a
    ELSE (IF a % 2 = 1 \/ b % 2 = 1 THEN 1 ELSE 0) + 2 * BitOr(a \div 2, b \div 2)

U16(n) == n % 65536

U8(n) == n % 256

Min(a, b) == IF a < b THEN a ELSE b

(***************************************************************************)
(* Command and its 3-byte encoding                                         *)
(***************************************************************************)
Cmd(op) == [op |-> op, a |-> 0, b |-> 0]

BlockStart == Cmd("BlockStart")

BlockNumber(n) == [op |-> "BlockNumber", a |-> n, b |-> 0]

StartDrawing == Cmd("StartDrawing")

StopDrawing == Cmd("StopDrawing")

PenLift == Cmd("PenLift")

PenDown == Cmd("PenDown")

EnableEraser == Cmd("EnableEraser")

Move(x, y) == [op |-> "Move", a |-> x, b |-> y]

Wait(s) == [op |-> "Wait", a |-> s, b |-> 0]

\* Mutant: the limit of BlockNumber is off by one.
to_bytes_panics_OffByOne(c) ==
    \/ c.op = "BlockNumber" /\ c.a > BLOCK_NUMBER_LIMIT
    \/ c.op = "Wait" /\ c.a > WAIT_LIMIT

\* to_bytes panics instead of returning for these commands.
to_bytes_panics(c) ==
    \/ c.op = "BlockNumber" /\ c.a >= BLOCK_NUMBER_LIMIT
    \/ c.op = "Wait" /\ c.a > WAIT_LIMIT

to_bytes(c) ==
    CASE c.op = "BlockStart"   -> <<250, 159, 161>>
      [] c.op = "BlockNumber"  -> <<250, U8(BitOr(144, c.a \div 256)), U8(c.a % 256)>>
      [] c.op = "StartDrawing" -> <<250, 31, 161>>
      [] c.op = "StopDrawing"  -> <<250, 32, 0>>
      [] c.op = "PenLift"      -> <<250, 48, 0>>
      [] c.op = "PenDown"      -> <<250, 64, 0>>
      [] c.op = "Move"         -> << U8((c.a \div 16) % 256),
                                     U8(BitOr(U16(c.a * 16), c.b \div 256) % 256),
                                     U8(c.b % 256) >>
      [] c.op = "Wait"         -> <<250, 96, c.a>>
      [] c.op = "EnableEraser" -> <<250, 80, 0>>

(***************************************************************************)
(* Coordinate fixing.  Arguments and results are tenths of a millimetre.   *)
(***************************************************************************)
\* Mutant: x is clamped at 0 only.
fix_x_NoUpperClamp(x) == IF x < 0 THEN 0 ELSE x

\* Mutant: x is clamped at 400 mm instead of IBB_WIDTH.
fix_x_ClampAt4000(x) ==
    IF x < 0 THEN 0
    ELSE IF x > 4000 THEN 4000
    ELSE x

fix_x(x) ==
    IF x < 0 THEN 0
    ELSE IF x > IBB_WIDTH * 10 THEN IBB_WIDTH * 10
    ELSE x

\* The f64 difference 123.0 - y of fix_y, for y on the grid: r is the exact
\* difference in tenths.  The rounded difference times 10.0 lies just below
\* the integer r for these r, and at or above it for every other r.
F64DiffBelow(r) ==
    \/ 0 < r /\ r < 256 /\ r % 5 \in {1, 3}
    \/ 256 <= r /\ r <= 511 /\ r % 5 = 1

fix_y(y) ==
    LET yy == IBB_HEIGHT * 10 - y
    IN  IF yy < 0 THEN 0
        ELSE IF yy > IBB_HEIGHT * 10 THEN IBB_HEIGHT * 10
        ELSE yy

\* (fix_x(p.x) * 10.0) as u16
DevX(x) == U16(fix_x(x))

\* (fix_y(p.y) * 10.0) as u16: the cast truncates toward zero.
DevY(y) ==
    LET yy == fix_y(y)
    IN  IF yy = IBB_HEIGHT * 10 - y /\ F64DiffBelow(yy) THEN U16(yy - 1) ELSE U16(yy)

(***************************************************************************)
(* Sketch: erase_all and into_blocks                                       *)
(***************************************************************************)
\* Mutant: y goes down by two steps at a time.
StepDown_Double(y) == IF y > 2 * Y_STEP THEN y - 2 * Y_STEP ELSE 0

\* One decrement of y in the erase loop.
StepDown(y) == IF y > Y_STEP THEN y - Y_STEP ELSE 0

RECURSIVE EraseLoop(_)
EraseLoop(y) ==
    IF y <= 0 THEN <<>>
    ELSE LET y1 == StepDown(y)
             y2 == StepDown(y1)
         IN  << Move(IBB_WIDTH * 10, y * 10),
                Move(IBB_WIDTH * 10, y1 * 10),
                Move(0, y1 * 10),
                Move(0, y2 * 10) >> \o EraseLoop(y2)

erase_all ==
    <<PenLift, Move(0, IBB_HEIGHT * 10), EnableEraser>>
        \o EraseLoop(IBB_HEIGHT)
        \o <<PenLift, Move(0, 0)>>

\* Mutant: the polyline's PenLift is left out.
PolylineCommands_NoLift(polyline) ==
    << Move(DevX(polyline[1][1]), DevY(polyline[1][2])), PenDown >>
        \o [i \in 1..(Len(polyline) - 1) |->
               Move(DevX(polyline[i + 1][1]), DevY(polyline[i + 1][2]))]

\* The commands of one polyline of at least two points.
PolylineCommands(polyline) ==
    << Move(DevX(polyline[1][1]), DevY(polyline[1][2])), PenDown >>
        \o [i \in 1..(Len(polyline) - 1) |->
               Move(DevX(polyline[i + 1][1]), DevY(polyline[i + 1][2]))]
        \o <<PenLift>>

\* Mutant: only a polyline without any point is skipped.
RECURSIVE DrawingCommands_SkipsEmptyOnly(_)
DrawingCommands_SkipsEmptyOnly(polylines) ==
    IF polylines = <<>> THEN <<>>
    ELSE (IF Len(Head(polylines)) < 1 THEN <<>> ELSE PolylineCommands(Head(polylines)))
             \o DrawingCommands_SkipsEmptyOnly(Tail(polylines))

RECURSIVE DrawingCommands(_)
DrawingCommands(polylines) ==
    IF polylines = <<>> THEN <<>>
    ELSE (IF Len(Head(polylines)) < 2 THEN <<>> ELSE PolylineCommands(Head(polylines)))
             \o DrawingCommands(Tail(polylines))

\* Mutant: the pen is not moved home before StopDrawing.
SketchCommands_NoHome(polylines, erase) ==
    <<StartDrawing>>
        \o (IF erase THEN erase_all ELSE <<PenLift, Move(0, 0)>>)
        \o DrawingCommands(polylines)
        \o <<StopDrawing>>

\* The commands into_blocks adds to the buffer, in order.
SketchCommands(polylines, erase) ==
    <<StartDrawing>>
        \o (IF erase THEN erase_all ELSE <<PenLift, Move(0, 0)>>)
        \o DrawingCommands(polylines)
        \o <<Move(0, 0), StopDrawing>>

\* self.buf: add_command appends the 3 bytes of each command.
SketchBuf(cmds) ==
    [i \in 1..(3 * Len(cmds)) |-> to_bytes(cmds[((i - 1) \div 3) + 1])[((i - 1) % 3) + 1]]

\* Mutant: a last chunk shorter than n is dropped.
NumChunks_Floor(cmdbuf, n) == Len(cmdbuf) \div n

\* buf.chunks(n): consecutive slices of n bytes, the last one shorter.
NumChunks(cmdbuf, n) == (Len(cmdbuf) + n - 1) \div n

Chunk(cmdbuf, n, i) == SubSeq(cmdbuf, n * i + 1, Min(n * (i + 1), Len(cmdbuf)))

\* Mutant: the chunk is a full BLOCK_SIZE, the header not counted.
MakeBlock_FullChunk(cmdbuf, i) ==
    to_bytes(BlockStart) \o to_bytes(BlockNumber(U16(i + 1))) \o Chunk(cmdbuf, BLOCK_SIZE, i)

\* Mutant: the blocks are numbered from 0.
MakeBlock_ZeroBased(cmdbuf, i) ==
    to_bytes(BlockStart) \o to_bytes(BlockNumber(U16(i))) \o Chunk(cmdbuf, BLOCK_SIZE - 6, i)

\* The block of chunk i (0-based): BlockStart, BlockNumber(i + 1), chunk.
MakeBlock(cmdbuf, i) ==
    to_bytes(BlockStart) \o to_bytes(BlockNumber(U16(i + 1))) \o Chunk(cmdbuf, BLOCK_SIZE - 6, i)

\* into_blocks panics when a block number reaches 4000.
into_blocks_panics(polylines, erase) ==
    LET cmdbuf == SketchBuf(SketchCommands(polylines, erase))
    IN  \E i \in 0..(NumChunks(cmdbuf, BLOCK_SIZE - 6) - 1) :
            to_bytes_panics(BlockNumber(U16(i + 1)))

\* The loop over the chunks from chunk i on: each block is pushed in turn.
RECURSIVE BlocksFrom(_, _)
BlocksFrom(cmdbuf, i) ==
    IF i >= NumChunks(cmdbuf, BLOCK_SIZE - 6) THEN <<>>
    ELSE <<MakeBlock(cmdbuf, i)>> \o BlocksFrom(cmdbuf, i + 1)

into_blocks(polylines, erase) ==
    BlocksFrom(SketchBuf(SketchCommands(polylines, erase)), 0)

(***************************************************************************)
(* Inputs: polylines, drawings, print tasks, device lines                  *)
(***************************************************************************)
\* Points the generated polylines run through: two on the board, one off it.
PointPool == << <<0, 0>>, <<100, 0>>, <<4000, 2000>>, <<123, 456>> >>

\* A polyline of n points, taken from the pool in turn, starting after s.
MkPolyline(n, s) == [i \in 1..n |-> PointPool[((s + i - 1) % Len(PointPool)) + 1]]

\* The drawings the clients print: the first compiles to one block, the
\* second (one polyline of 217 points) to two.
Drawings == << << MkPolyline(2, 0) >>, << MkPolyline(217, 1) >> >>

DrawingIds == 1..Len(Drawings)

\* The blocks of each drawing, compiled with erase = true as the serial
\* thread and the scheduled closure compile them.
RECURSIVE CompileAll(_)
CompileAll(ds) ==
    IF ds = <<>> THEN <<>>
    ELSE << [blocks |-> into_blocks(Head(ds), TRUE),
             panics |-> into_blocks_panics(Head(ds), TRUE)] >> \o CompileAll(Tail(ds))

Compiled == CompileAll(Drawings)

CompiledBlocks(d) == Compiled[d].blocks

\* A drawing too large to compile: its commands fill 4000 blocks or more, so
\* that into_blocks panics in to_bytes on BlockNumber(4000).
Oversized == Len(Drawings) + 1

CompilePanics(d) == d = Oversized \/ Compiled[d].panics

\* Block k of the compiled drawing d, as the queue holds it.
BlockRef(d, k) == [d |-> d, k |-> k]

BlockBytes(b) == CompiledBlocks(b.d)[b.k]

\* The blocks one compile of drawing d pushes, in order.
BlocksOf(d) == [k \in 1..Len(CompiledBlocks(d)) |-> BlockRef(d, k)]

\* The BlockNumber in a block's header, decoded from bytes 3..6.
HeaderNumber(bytes) == (bytes[5] % 16) * 256 + bytes[6]

NoBlock == [d |-> 0, k |-> 0]

\* PrintTask::Once(polylines) and PrintTask::Scheduled(interval, polylines_vec).
\* The interval is left out: a firing may come at any time while the job runs.
Once(d) == [kind |-> "Once", d |-> d, sets |-> <<>>]

Scheduled(sets) == [kind |-> "Scheduled", d |-> 0, sets |-> sets]

ScheduleSets == { <<>>, <<1, 2>> }

Tasks == {Once(d) : d \in DrawingIds} \cup {Scheduled(s) : s \in ScheduleSets}

NoTask == [kind |-> "None", d |-> 0, sets |-> <<>>]

\* A trimmed line of the device: "CL STATUS=READY", "CL STATUS=ACK&NUM=<digits>",
\* another line that starts with "CL ", and a line that does not.
Line(t, digits) == [t |-> t, digits |-> digits]

AckDigits == { <<0>>, <<1>>, <<2>>, <<3>>, <<9>>, <<4, 2, 9, 4, 9, 6, 7, 2, 9, 6>> }

Lines ==
    {Line("READY", <<>>), Line("CL", <<>>), Line("OTHER", <<>>)}
        \cup {Line("ACK", ds) : ds \in AckDigits}

NoLine == Line("", <<>>)

starts_with_CL(line) == line.t \in {"READY", "ACK", "CL"}

\* number_str.parse::<u32>().  TLC's integers end at 2^31 - 1, so the digits
\* are compared with those of u32::MAX, and a value above 2^31 - 1 is given
\* as 2^31 - 1: current_block stays far below it.
U32MaxDigits == <<4, 2, 9, 4, 9, 6, 7, 2, 9, 5>>

RECURSIVE StripZeros(_)
StripZeros(ds) == IF Len(ds) > 1 /\ Head(ds) = 0 THEN StripZeros(Tail(ds)) ELSE ds

RECURSIVE DigitsGreater(_, _)
DigitsGreater(xs, ys) ==
    IF xs = <<>> THEN FALSE
    ELSE IF Head(xs) # Head(ys) THEN Head(xs) > Head(ys)
    ELSE DigitsGreater(Tail(xs), Tail(ys))

ExceedsU32(ds) ==
    LET s == StripZeros(ds)
    IN  \/ Len(s) > Len(U32MaxDigits)
        \/ Len(s) = Len(U32MaxDigits) /\ DigitsGreater(s, U32MaxDigits)

RECURSIVE DigitsValue(_, _)
DigitsValue(acc, ds) ==
    IF ds = <<>> THEN acc
    ELSE IF acc > (2147483647 - Head(ds)) \div 10 THEN 2147483647
    ELSE DigitsValue(10 * acc + Head(ds), Tail(ds))

\* The value, or -1 for Err.
ParseU32(ds) == IF ExceedsU32(ds) THEN -1 ELSE DigitsValue(0, ds)

(***************************************************************************)
(* State                                                                   *)
(***************************************************************************)
VARIABLES
    pc,              \* where the serial thread is in its loop
    task,            \* the task recv_timeout returned, while it is handled
    chan,            \* the intake channel: tasks sent and not yet received
    tx_alive,        \* whether a Sender of the channel exists
    sent_count,      \* tasks sent so far
    blocks_queue,    \* the pending blocks
    lock,            \* who holds the queue's mutex across steps
    current_block,
    current_job,     \* 0 for None, else the job of the handle
    iteration,       \* the shared iteration counter
    jobs,            \* the jobs registered with the executor
    buf,             \* the line read from the device
    block,           \* the block popped and being written
    exec_pc,         \* where the executor thread is in a firing
    exec_job,        \* the job whose closure it runs
    exec_i,          \* the value its fetch_add returned
    firings,         \* firings started so far
    appends,         \* history: every compile pushed to the queue
    wire,            \* history: every block handed to write_all
    write_ok,        \* history: whether the last write_all and flush succeeded
    poisoned,        \* whether the queue's mutex is poisoned
    sketch_polylines,  \* compiler specification: the polylines of the sketch
    sketch_erase,    \* compiler specification: the erase flag
    sketch_blocks,   \* compiler specification: the blocks returned
    compiled,        \* compiler specification: whether into_blocks has run
    enc_cmd,         \* codec specification: the Command to encode
    enc_bytes,       \* codec specification: the bytes to_bytes returned
    enc_pc,          \* codec specification: "idle", "returned" or "panicked"
    fix_point,       \* fixing specification: the source point, in tenths
    fix_move,        \* fixing specification: the Move emitted for it
    fix_pc,          \* fixing specification: "idle" or "returned"
    pm_mode,         \* mode specification: the PrintMode
    pm_polylines,    \* mode specification: the polylines of the request
    pm_task,         \* mode specification: the PrintTask returned
    pm_pc,           \* mode specification: "idle" or "returned"
    fit_in,          \* scaling specification: the polylines given
    fit_target,      \* scaling specification: the target bounds
    fit_out,         \* scaling specification: the polylines afterwards
    fit_pc,          \* scaling specification: "idle", "ok" or "err"
    emit_pc,         \* sketch specification: where into_blocks is
    erase_y,         \* sketch specification: y of the erase loop
    emit_k,          \* sketch specification: polylines the for loop has taken
    added            \* sketch specification: the commands given to add_command

driverVars ==
    << pc, task, chan, tx_alive, sent_count, blocks_queue, lock, current_block,
       current_job, iteration, jobs, buf, block, exec_pc, exec_job, exec_i,
       firings, appends, wire, write_ok, poisoned >>

compilerVars == << sketch_polylines, sketch_erase, sketch_blocks, compiled >>

codecVars == << enc_cmd, enc_bytes, enc_pc >>

fixVars == << fix_point, fix_move, fix_pc >>

modeVars == << pm_mode, pm_polylines, pm_task, pm_pc >>

fitVars == << fit_in, fit_target, fit_out, fit_pc >>

emitVars == << emit_pc, erase_y, emit_k, added >>

\* What the serial thread, the executor and the clients never touch.
pureVars == << compilerVars, codecVars, fixVars, modeVars, fitVars, emitVars >>

vars == << driverVars, pureVars >>

\* The serial thread has left its loop.
ThreadEnded == pc \in {"done", "returned", "panicked"}

DriverInit ==
    /\ pc = "poll"
    /\ task = NoTask
    /\ chan = <<>>
    /\ tx_alive = TRUE
    /\ sent_count = 0
    /\ blocks_queue = <<>>
    /\ lock = "free"
    /\ current_block = 0
    /\ current_job = 0
    /\ iteration = 0
    /\ jobs = <<>>
    /\ buf = NoLine
    /\ block = NoBlock
    /\ exec_pc = "idle"
    /\ exec_job = 0
    /\ exec_i = 0
    /\ firings = 0
    /\ appends = <<>>
    /\ wire = <<>>
    /\ write_ok = TRUE
    /\ poisoned = FALSE

\* The compiler specification's variables, where they stay in Spec.
CompilerIdle ==
    /\ sketch_polylines = <<>>
    /\ sketch_erase = FALSE
    /\ sketch_blocks = <<>>
    /\ compiled = FALSE

\* The same for the other specifications' variables.
CodecIdle ==
    /\ enc_cmd = BlockStart
    /\ enc_bytes = <<>>
    /\ enc_pc = "idle"

FixIdle ==
    /\ fix_point = <<0, 0>>
    /\ fix_move = BlockStart
    /\ fix_pc = "idle"

ModeIdle ==
    /\ pm_mode = "Once"
    /\ pm_polylines = <<>>
    /\ pm_task = NoTask
    /\ pm_pc = "idle"

FitIdle ==
    /\ fit_in = <<>>
    /\ fit_target = <<>>
    /\ fit_out = <<>>
    /\ fit_pc = "idle"

EmitIdle ==
    /\ emit_pc = "idle"
    /\ erase_y = 0
    /\ emit_k = 0
    /\ added = <<>>

Init ==
    DriverInit /\ CompilerIdle /\ CodecIdle /\ FixIdle /\ ModeIdle /\ FitIdle /\ EmitIdle

(***************************************************************************)
(* Clients                                                                 *)
(***************************************************************************)
\* tx.send(task): fails, and queues nothing, once the receiver is gone.
ClientSend(t) ==
    /\ tx_alive
    /\ ~ThreadEnded
    /\ sent_count < MaxTasks
    /\ chan' = Append(chan, t)
    /\ sent_count' = sent_count + 1
    /\ UNCHANGED << pc, task, tx_alive, blocks_queue, lock, current_block, current_job,
                    iteration, jobs, buf, block, exec_pc, exec_job, exec_i, firings,
                    appends, wire, write_ok, poisoned, pureVars >>

\* The last Sender is dropped.
ClientDrop ==
    /\ tx_alive
    /\ tx_alive' = FALSE
    /\ UNCHANGED << pc, task, chan, sent_count, blocks_queue, lock, current_block,
                    current_job, iteration, jobs, buf, block, exec_pc, exec_job, exec_i,
                    firings, appends, wire, write_ok, poisoned, pureVars >>

(***************************************************************************)
(* The serial thread: intake                                               *)
(***************************************************************************)
\* rx.recv_timeout(50 ms): a queued task, Timeout, or Disconnected once no
\* Sender is left and the channel is empty.
\* Mutant: Disconnected is taken like Timeout.
OnRecvError_NoExit(alive) == "read"

\* Where the loop goes on an Err of recv_timeout: on Timeout (a Sender is
\* left) to the serial read, on Disconnected out of the loop.
OnRecvError(alive) == IF alive THEN "read" ELSE "done"

Poll ==
    /\ pc = "poll"
    /\ IF chan # <<>>
         THEN /\ task' = Head(chan)
              /\ chan' = Tail(chan)
              /\ pc' = "stop"
         ELSE /\ pc' = OnRecvError(tx_alive)
              /\ UNCHANGED << task, chan >>
    /\ UNCHANGED << tx_alive, sent_count, blocks_queue, lock, current_block, current_job,
                    iteration, jobs, buf, block, exec_pc, exec_job, exec_i, firings,
                    appends, wire, write_ok, poisoned, pureVars >>

\* handle.stop() on the handle in current_job, which stays in current_job.
StopJob(js, j) == IF j = 0 THEN js ELSE [js EXCEPT ![j].stopped = TRUE]

AcceptStop ==
    /\ pc = "stop"
    /\ jobs' = StopJob(jobs, current_job)
    /\ pc' = "reset"
    /\ UNCHANGED << task, chan, tx_alive, sent_count, blocks_queue, lock, current_block,
                    current_job, iteration, buf, block, exec_pc, exec_job, exec_i, firings,
                    appends, wire, write_ok, poisoned, pureVars >>

\* iteration.store(0)
AcceptReset ==
    /\ pc = "reset"
    /\ iteration' = 0
    /\ pc' = "dispatch"
    /\ UNCHANGED << task, chan, tx_alive, sent_count, blocks_queue, lock, current_block,
                    current_job, jobs, buf, block, exec_pc, exec_job, exec_i, firings,
                    appends, wire, write_ok, poisoned, pureVars >>

\* Mutant: the new blocks replace the queue.
PushBlocks_Replace(queue, d) == BlocksOf(d)

\* Mutant: only the first block of the compile is pushed.
PushBlocks_FirstOnly(queue, d) == Append(queue, BlocksOf(d)[1])

\* The queue after one compile of drawing d is pushed, block by block, under
\* one acquisition of the mutex.
PushBlocks(queue, d) == queue \o BlocksOf(d)

\* PrintTask::Once: lock the queue, compile with erase = true and push the
\* blocks.  A poisoned mutex gives Err, which is logged.  A panic of
\* into_blocks, which runs with the guard alive, poisons the mutex and ends
\* the thread.
DispatchOnce ==
    /\ pc = "dispatch"
    /\ task.kind = "Once"
    /\ lock = "free"
    /\ IF poisoned
         THEN /\ pc' = "read"
              /\ UNCHANGED << blocks_queue, appends, poisoned >>
         ELSE IF CompilePanics(task.d)
         THEN /\ pc' = "panicked"
              /\ poisoned' = TRUE
              /\ UNCHANGED << blocks_queue, appends >>
         ELSE /\ blocks_queue' = PushBlocks(blocks_queue, task.d)
              /\ appends' = Append(appends, [job |-> 0, i |-> 0, d |-> task.d,
                                             n |-> Len(BlocksOf(task.d))])
              /\ pc' = "read"
              /\ UNCHANGED poisoned
    /\ task' = NoTask
    /\ UNCHANGED << chan, tx_alive, sent_count, lock, current_block, current_job,
                    iteration, jobs, buf, block, exec_pc, exec_job, exec_i, firings,
                    wire, write_ok, pureVars >>

\* Where the thread goes on after a Scheduled task with an empty polylines_vec:
\* the closure of thread::spawn returns.
AfterEmptySchedule == "returned"

\* PrintTask::Scheduled: register the closure with the executor.
DispatchScheduled ==
    /\ pc = "dispatch"
    /\ task.kind = "Scheduled"
    /\ IF task.sets = <<>>
         THEN /\ pc' = AfterEmptySchedule
              /\ UNCHANGED << jobs, current_job >>
         ELSE /\ jobs' = Append(jobs, [sets |-> task.sets, stopped |-> FALSE])
              /\ current_job' = Len(jobs) + 1
              /\ pc' = "read"
    /\ task' = NoTask
    /\ UNCHANGED << chan, tx_alive, sent_count, blocks_queue, lock, current_block,
                    iteration, buf, block, exec_pc, exec_job, exec_i, firings,
                    appends, wire, write_ok, poisoned, pureVars >>

(***************************************************************************)
(* The serial thread: the conversation with the device                     *)
(***************************************************************************)
\* ser.read_line(&mut buf): a line, or an error (the 1 s timeout) after which
\* the buffer is cleared and the loop starts over.
SerialRead ==
    /\ pc = "read"
    /\ \/ \E l \in Lines : buf' = l /\ pc' = "line"
       \/ buf' = NoLine /\ pc' = "poll"
    /\ UNCHANGED << task, chan, tx_alive, sent_count, blocks_queue, lock, current_block,
                    current_job, iteration, jobs, block, exec_pc, exec_job, exec_i,
                    firings, appends, wire, write_ok, poisoned, pureVars >>

\* Mutant: an ACK above current_block does not send.
SendNext_NoLarger(line, cur) ==
    \/ line.t = "READY"
    \/ /\ line.t = "ACK"
       /\ ParseU32(line.digits) # -1
       /\ \/ ParseU32(line.digits) = 1
          \/ ParseU32(line.digits) = cur

\* Mutant: every line that starts with "CL " sets send_next.
SendNext_Always(line, cur) == TRUE

\* send_next for a line that starts with "CL ", with the queue not empty.
SendNext(line, cur) ==
    \/ line.t = "READY"
    \/ /\ line.t = "ACK"
       /\ ParseU32(line.digits) # -1
       /\ \/ ParseU32(line.digits) = 1
          \/ ParseU32(line.digits) = cur
          \/ ParseU32(line.digits) > cur

\* Mutant: no arm resets current_block.
ResetsBlock_Never(line, cur) == FALSE

\* The ACK arm that resets current_block to 1.
ResetsBlock(line, cur) ==
    /\ line.t = "ACK"
    /\ ParseU32(line.digits) # -1
    /\ ParseU32(line.digits) # 1
    /\ ParseU32(line.digits) # cur
    /\ ParseU32(line.digits) > cur

\* Mutant: any line that starts with "CL " sends.
Sends_AnyCL(line, queue, cur) == Len(queue) > 0 /\ starts_with_CL(line)

\* The thread sends on this line.
Sends(line, queue, cur) == Len(queue) > 0 /\ starts_with_CL(line) /\ SendNext(line, cur)

\* queue.pop_front()
PopFront(queue) == Tail(queue)

\* Mutant: the thread unwraps the result of lock() and panics on Err.
HandleLine_UnwrapsLock ==
    /\ pc = "line"
    /\ lock = "free"
    /\ IF poisoned
         THEN /\ pc' = "panicked"
              /\ UNCHANGED << buf, block, blocks_queue, current_block, lock >>
         ELSE IF Sends(buf, blocks_queue, current_block)
         THEN /\ block' = Head(blocks_queue)
              /\ blocks_queue' = PopFront(blocks_queue)
              /\ current_block' =
                     (IF ResetsBlock(buf, current_block) THEN 1 ELSE current_block) + 1
              /\ lock' = "driver"
              /\ pc' = "write"
              /\ UNCHANGED buf
         ELSE /\ buf' = NoLine
              /\ pc' = "poll"
              /\ UNCHANGED << block, blocks_queue, current_block, lock >>
    /\ UNCHANGED << task, chan, tx_alive, sent_count, current_job, iteration, jobs,
                    exec_pc, exec_job, exec_i, firings, appends, wire,
                    write_ok, poisoned, pureVars >>

\* The line is classified under the mutex; on send_next the front block is
\* popped and current_block incremented, and the write follows with the
\* mutex still held.  A poisoned mutex gives Err, which is logged.
HandleLine ==
    /\ pc = "line"
    /\ lock = "free"
    /\ IF ~poisoned /\ Sends(buf, blocks_queue, current_block)
         THEN /\ block' = Head(blocks_queue)
              /\ blocks_queue' = PopFront(blocks_queue)
              /\ current_block' =
                     (IF ResetsBlock(buf, current_block) THEN 1 ELSE current_block) + 1
              /\ lock' = "driver"
              /\ pc' = "write"
              /\ UNCHANGED buf
         ELSE /\ buf' = NoLine
              /\ pc' = "poll"
              /\ UNCHANGED << block, blocks_queue, current_block, lock >>
    /\ UNCHANGED << task, chan, tx_alive, sent_count, current_job, iteration, jobs,
                    exec_pc, exec_job, exec_i, firings, appends, wire,
                    write_ok, poisoned, pureVars >>

\* Mutant: an I/O error ends the loop.
AfterWrite_StopOnError(ok) == IF ok THEN "poll" ELSE "done"

\* Where the loop goes on after write_all and flush, whatever they returned.
AfterWrite(ok) == "poll"

\* ser.write_all(&block) and ser.flush(): each returns Ok or an error that is
\* logged.  Then the guard is dropped and the line buffer cleared.
SerialWrite ==
    /\ pc = "write"
    /\ \E wrote \in BOOLEAN, flushed \in BOOLEAN :
          /\ write_ok' = (wrote /\ flushed)
          /\ pc' = AfterWrite(wrote /\ flushed)
    /\ wire' = Append(wire, block)
    /\ block' = NoBlock
    /\ lock' = "free"
    /\ buf' = NoLine
    /\ UNCHANGED << task, chan, tx_alive, sent_count, blocks_queue, current_block,
                    current_job, iteration, jobs, exec_pc, exec_job, exec_i, firings,
                    appends, poisoned, pureVars >>

(***************************************************************************)
(* The executor thread: one firing of a job's closure                      *)
(***************************************************************************)
\* The executor finds the job due and not stopped, and calls its closure.
\* It ends with the serial thread, which owns it.
FireBegin(j) ==
    /\ exec_pc = "idle"
    /\ ~ThreadEnded
    /\ firings < MaxFirings
    /\ ~jobs[j].stopped
    /\ exec_pc' = "called"
    /\ exec_job' = j
    /\ firings' = firings + 1
    /\ UNCHANGED << pc, task, chan, tx_alive, sent_count, blocks_queue, lock,
                    current_block, current_job, iteration, jobs, buf, block, exec_i,
                    appends, wire, write_ok, poisoned, pureVars >>

\* Mutant: the closure adds 2 to the counter.
FireFetch_AddTwo ==
    /\ exec_pc = "called"
    /\ exec_i' = iteration
    /\ iteration' = iteration + 2
    /\ exec_pc' = "fetched"
    /\ UNCHANGED << pc, task, chan, tx_alive, sent_count, blocks_queue, lock,
                    current_block, current_job, jobs, buf, block, exec_job, firings,
                    appends, wire, write_ok, poisoned, pureVars >>

\* let i = iteration_clone.fetch_add(1, SeqCst)
FireFetch ==
    /\ exec_pc = "called"
    /\ exec_i' = iteration
    /\ iteration' = iteration + 1
    /\ exec_pc' = "fetched"
    /\ UNCHANGED << pc, task, chan, tx_alive, sent_count, blocks_queue, lock,
                    current_block, current_job, jobs, buf, block, exec_job, firings,
                    appends, wire, write_ok, poisoned, pureVars >>

\* let index = i % polylines_vec.len()
ScheduleIndex(i, n) == i % n

\* The closure locks the queue, compiles polylines_vec[index] with
\* erase = true and pushes the blocks.  A poisoned mutex gives Err, which is
\* logged.  A panic of into_blocks, which runs with the guard alive, poisons
\* the mutex; whether the executor calls a closure again after one has
\* panicked is the library's matter: it may, or it may be dead.
FireAppend ==
    /\ exec_pc = "fetched"
    /\ lock = "free"
    /\ LET sets == jobs[exec_job].sets
           index == ScheduleIndex(exec_i, Len(sets))
           d == sets[index + 1]
       IN  IF poisoned
             THEN /\ exec_pc' = "idle"
                  /\ UNCHANGED << blocks_queue, appends, poisoned >>
             ELSE IF CompilePanics(d)
             THEN /\ poisoned' = TRUE
                  /\ exec_pc' \in {"idle", "dead"}
                  /\ UNCHANGED << blocks_queue, appends >>
             ELSE /\ blocks_queue' = PushBlocks(blocks_queue, d)
                  /\ appends' = Append(appends, [job |-> exec_job, i |-> index, d |-> d,
                                                 n |-> Len(BlocksOf(d))])
                  /\ exec_pc' = "idle"
                  /\ UNCHANGED poisoned
    /\ UNCHANGED << pc, task, chan, tx_alive, sent_count, lock, current_block,
                    current_job, iteration, jobs, buf, block, exec_job, exec_i, firings,
                    wire, write_ok, pureVars >>

Next ==
    \/ \E t \in Tasks : ClientSend(t)
    \/ ClientDrop
    \/ Poll
    \/ AcceptStop
    \/ AcceptReset
    \/ DispatchOnce
    \/ DispatchScheduled
    \/ SerialRead
    \/ HandleLine
    \/ SerialWrite
    \/ \E j \in 1..Len(jobs) : FireBegin(j)
    \/ FireFetch
    \/ FireAppend

Spec == Init /\ [][Next]_vars

(***************************************************************************)
(* The poisoning specification: the serial thread with a schedule whose    *)
(* drawing is too large to compile                                         *)
(***************************************************************************)
PoisonTasks == {Once(1), Scheduled(<<Oversized>>)}

PoisonNext ==
    \/ \E t \in PoisonTasks : ClientSend(t)
    \/ ClientDrop
    \/ Poll
    \/ AcceptStop
    \/ AcceptReset
    \/ DispatchOnce
    \/ DispatchScheduled
    \/ SerialRead
    \/ HandleLine
    \/ SerialWrite
    \/ \E j \in 1..Len(jobs) : FireBegin(j)
    \/ FireFetch
    \/ FireAppend

SpecPoison == Init /\ [][PoisonNext]_vars

(***************************************************************************)
(* The draining specification: the serial thread goes round its loop       *)
(***************************************************************************)
\* One step of the serial thread.  recv_timeout returns within 50 ms and
\* read_line within 1 s, so a thread that is in its loop takes its next step.
DriverStep ==
    \/ Poll
    \/ AcceptStop
    \/ AcceptReset
    \/ DispatchOnce
    \/ DispatchScheduled
    \/ SerialRead
    \/ HandleLine
    \/ SerialWrite

\* A closure the executor has called runs to its end.
SpecDrain ==
    /\ Spec
    /\ WF_vars(DriverStep)
    /\ WF_vars(FireFetch)
    /\ WF_vars(FireAppend)

(***************************************************************************)
(* The compiler specification: into_blocks on bounded inputs               *)
(***************************************************************************)
\* Lengths of the input polylines.  Without the erase sweep one polyline of
\* 247 points gives 254 commands and fills a block, one of 248 starts a
\* second and one of 249 gives 256 commands; with the sweep the block is
\* full at 216 points and a second starts at 217.
PolylineLengths == {0, 1, 2, 216, 217, 247, 248, 249}

PolylinePool == {MkPolyline(n, 0) : n \in PolylineLengths}

RECURSIVE SeqsUpTo(_, _)
SeqsUpTo(S, n) ==
    IF n = 0 THEN {<<>>}
    ELSE SeqsUpTo(S, n - 1)
             \cup {Append(q, e) : q \in {r \in SeqsUpTo(S, n - 1) : Len(r) = n - 1}, e \in S}

PolylineLists == SeqsUpTo(PolylinePool, MaxPolylines)

CompileInit ==
    /\ DriverInit
    /\ CodecIdle
    /\ FixIdle
    /\ ModeIdle
    /\ FitIdle
    /\ EmitIdle
    /\ sketch_polylines \in PolylineLists
    /\ sketch_erase \in BOOLEAN
    /\ sketch_blocks = <<>>
    /\ compiled = FALSE

\* Sketch::new(&polylines).into_blocks(erase)
Compile ==
    /\ ~compiled
    /\ ~into_blocks_panics(sketch_polylines, sketch_erase)
    /\ sketch_blocks' = into_blocks(sketch_polylines, sketch_erase)
    /\ compiled' = TRUE
    /\ UNCHANGED << driverVars, sketch_polylines, sketch_erase, codecVars, fixVars,
                    modeVars, fitVars, emitVars >>

CompileNext == Compile

SpecCompile == CompileInit /\ [][CompileNext]_vars

(***************************************************************************)
(* The sketch specification: into_blocks, one step for each stretch of     *)
(* straight-line code between the heads of its loops                       *)
(***************************************************************************)
\* The polylines of the sketches: none to three points each.
SketchPolylineLists == SeqsUpTo({MkPolyline(n, 0) : n \in 0..3}, MaxPolylines)

SketchInit ==
    /\ DriverInit
    /\ CodecIdle
    /\ FixIdle
    /\ ModeIdle
    /\ FitIdle
    /\ EmitIdle
    /\ sketch_polylines \in SketchPolylineLists
    /\ sketch_erase \in BOOLEAN
    /\ sketch_blocks = <<>>
    /\ compiled = FALSE

\* into_blocks up to the erase sweep or the polylines: StartDrawing, and
\* without the sweep PenLift and Move(0, 0).
IntoBlocksStart ==
    /\ emit_pc = "idle"
    /\ IF sketch_erase
         THEN /\ added' = Append(added, StartDrawing)
              /\ emit_pc' = "erase_all"
         ELSE /\ added' = added \o <<StartDrawing, PenLift, Move(0, 0)>>
              /\ emit_pc' = "polylines"
    /\ emit_k' = 0
    /\ UNCHANGED << driverVars, compilerVars, codecVars, fixVars, modeVars, fitVars,
                    erase_y >>

\* erase_all up to its loop.
EraseBegin ==
    /\ emit_pc = "erase_all"
    /\ added' = added \o <<PenLift, Move(0, IBB_HEIGHT * 10), EnableEraser>>
    /\ erase_y' = IBB_HEIGHT
    /\ emit_pc' = "erase_loop"
    /\ UNCHANGED << driverVars, compilerVars, codecVars, fixVars, modeVars, fitVars,
                    emit_k >>

\* The loop's first half, with y > 0: move to the right and step down.
EraseRight ==
    /\ emit_pc = "erase_loop"
    /\ ~(erase_y <= 0)
    /\ added' = Append(added, Move(IBB_WIDTH * 10, erase_y * 10))
    /\ erase_y' = StepDown(erase_y)
    /\ emit_pc' = "erase_left"
    /\ UNCHANGED << driverVars, compilerVars, codecVars, fixVars, modeVars, fitVars,
                    emit_k >>

\* The loop's second half: move back to the left and step down.
EraseLeft ==
    /\ emit_pc = "erase_left"
    /\ added' = added \o << Move(IBB_WIDTH * 10, erase_y * 10),
                            Move(0, erase_y * 10),
                            Move(0, StepDown(erase_y) * 10) >>
    /\ erase_y' = StepDown(erase_y)
    /\ emit_pc' = "erase_loop"
    /\ UNCHANGED << driverVars, compilerVars, codecVars, fixVars, modeVars, fitVars,
                    emit_k >>

\* The break at y <= 0, and erase_all after its loop.
EraseEnd ==
    /\ emit_pc = "erase_loop"
    /\ erase_y <= 0
    /\ added' = added \o <<PenLift, Move(0, 0)>>
    /\ emit_pc' = "polylines"
    /\ UNCHANGED << driverVars, compilerVars, codecVars, fixVars, modeVars, fitVars,
                    erase_y, emit_k >>

\* One turn of the loop over self.polylines.
AddPolyline ==
    /\ emit_pc = "polylines"
    /\ emit_k < Len(sketch_polylines)
    /\ added' = added \o (IF Len(sketch_polylines[emit_k + 1]) < 2 THEN <<>>
                          ELSE PolylineCommands(sketch_polylines[emit_k + 1]))
    /\ emit_k' = emit_k + 1
    /\ UNCHANGED << driverVars, compilerVars, codecVars, fixVars, modeVars, fitVars,
                    emit_pc, erase_y >>

\* After the polylines: Move(0, 0), StopDrawing, and the buffer cut into
\* blocks.
IntoBlocksEnd ==
    /\ emit_pc = "polylines"
    /\ emit_k >= Len(sketch_polylines)
    /\ added' = added \o <<Move(0, 0), StopDrawing>>
    /\ sketch_blocks' = BlocksFrom(SketchBuf(added'), 0)
    /\ compiled' = TRUE
    /\ emit_pc' = "done"
    /\ UNCHANGED << driverVars, sketch_polylines, sketch_erase, codecVars, fixVars,
                    modeVars, fitVars, erase_y, emit_k >>

SketchNext ==
    \/ IntoBlocksStart
    \/ EraseBegin
    \/ EraseRight
    \/ EraseLeft
    \/ EraseEnd
    \/ AddPolyline
    \/ IntoBlocksEnd

SpecSketch == SketchInit /\ [][SketchNext]_vars

\* into_blocks runs on one thread, which goes on step after step.
SpecSketchFair == SpecSketch /\ WF_vars(SketchNext)

(***************************************************************************)
(* The codec specification: Command::to_bytes on bounded inputs            *)
(***************************************************************************)
\* u16 payloads at the edges of the byte and nibble fields and of the limit.
BlockNumbers == {0, 1, 255, 256, 3999, 4000, 4001, 65535}

\* u8 payloads around the limit of Wait.
WaitSeconds == {0, 1, 30, 31, 255}

MoveXs == {0, 1, 15, 16, 255, 256, 3580, 4095, 4096, 65535}

MoveYs == {0, 1, 255, 256, 1230, 4095, 4096, 65535}

Commands ==
    {BlockStart, StartDrawing, StopDrawing, PenLift, PenDown, EnableEraser}
        \cup {BlockNumber(v) : v \in BlockNumbers}
        \cup {Wait(v) : v \in WaitSeconds}
        \cup {Move(v, w) : v \in MoveXs, w \in MoveYs}

CodecInit ==
    /\ DriverInit
    /\ CompilerIdle
    /\ FixIdle
    /\ ModeIdle
    /\ FitIdle
    /\ EmitIdle
    /\ enc_cmd \in Commands
    /\ enc_bytes = <<>>
    /\ enc_pc = "idle"

\* command.to_bytes(): the 3 bytes, or a panic that returns nothing.
Encode ==
    /\ enc_pc = "idle"
    /\ IF to_bytes_panics(enc_cmd)
       THEN enc_pc' = "panicked" /\ enc_bytes' = enc_bytes
       ELSE enc_pc' = "returned" /\ enc_bytes' = to_bytes(enc_cmd)
    /\ UNCHANGED << driverVars, compilerVars, enc_cmd, fixVars, modeVars, fitVars, emitVars >>

CodecNext == Encode

SpecCodec == CodecInit /\ [][CodecNext]_vars

(***************************************************************************)
(* The fixing specification: the Move of one polyline point                *)
(***************************************************************************)
\* Source points on the grid of tenths of a millimetre: every y from above
\* the board to below it, and x left of, on and right of the board.
FixGridX == {-10, -1, 0, 1, 1234, 3579, 3580, 3581, 4000}

FixGridY == (-10)..1240 \cup {2000}

FixInit ==
    /\ DriverInit
    /\ CompilerIdle
    /\ CodecIdle
    /\ ModeIdle
    /\ FitIdle
    /\ EmitIdle
    /\ fix_point \in FixGridX \X FixGridY
    /\ fix_move = BlockStart
    /\ fix_pc = "idle"

\* Command::Move((fix_x(p.x) * 10.0) as u16, (fix_y(p.y) * 10.0) as u16)
FixPoint ==
    /\ fix_pc = "idle"
    /\ fix_move' = Move(DevX(fix_point[1]), DevY(fix_point[2]))
    /\ fix_pc' = "returned"
    /\ UNCHANGED << driverVars, compilerVars, codecVars, fix_point, modeVars, fitVars, emitVars >>

FixNext == FixPoint

SpecFix == FixInit /\ [][FixNext]_vars

(***************************************************************************)
(* The mode specification: PrintMode::to_print_task (src/src/main.rs)      *)
(***************************************************************************)
PrintModes == {"Once", "Schedule5", "Schedule15", "Schedule30", "Schedule60"}

\* The minutes in the name of a schedule mode.
ModeMinutes(mode) ==
    CASE mode = "Schedule5"  -> 5
      [] mode = "Schedule15" -> 15
      [] mode = "Schedule30" -> 30
      [] mode = "Schedule60" -> 60

\* A PrintTask with its payload: the polylines of Once, the interval in
\* seconds and the list of drawings of Scheduled.
TaskOnce(polylines) == [kind |-> "Once", interval |-> 0, payload |-> polylines]

TaskScheduled(secs, polylines_vec) ==
    [kind |-> "Scheduled", interval |-> secs, payload |-> polylines_vec]

\* Mutant: the minutes are taken as seconds.
to_print_task_Minutes(mode, polylines) ==
    IF mode = "Once" THEN TaskOnce(polylines)
    ELSE TaskScheduled(ModeMinutes(mode), <<polylines>>)

to_print_task(mode, polylines) ==
    IF mode = "Once" THEN TaskOnce(polylines)
    ELSE TaskScheduled(ModeMinutes(mode) * 60, <<polylines>>)

ModeInit ==
    /\ DriverInit
    /\ CompilerIdle
    /\ CodecIdle
    /\ FixIdle
    /\ FitIdle
    /\ EmitIdle
    /\ pm_mode \in PrintModes
    /\ pm_polylines \in PolylineLists
    /\ pm_task = NoTask
    /\ pm_pc = "idle"

\* print_request.mode.to_print_task(polylines)
ToPrintTask ==
    /\ pm_pc = "idle"
    /\ pm_task' = to_print_task(pm_mode, pm_polylines)
    /\ pm_pc' = "returned"
    /\ UNCHANGED << driverVars, compilerVars, codecVars, fixVars, pm_mode, pm_polylines,
                    fitVars, emitVars >>

ModeNext == ToPrintTask

SpecMode == ModeInit /\ [][ModeNext]_vars

(***************************************************************************)
(* f64 arithmetic, as far as fit_polylines uses it                         *)
(*                                                                         *)
(* An f64 is a sign and a magnitude; the magnitude is a fixed-point binary *)
(* number of NumLimbs limbs of LimbBits bits, lowest limb first, the       *)
(* lowest FracLimbs of them below the binary point.  Each operation        *)
(* computes the exact result and rounds it to 53 significant bits, ties to *)
(* even, as IEEE 754 does.  The inputs of the scaling specification keep   *)
(* every value below 2^20 and every non-zero quotient above 2^-17, so that *)
(* no rounded value needs a bit below the fixed point's last.              *)
(***************************************************************************)
F64_MANTISSA == 53

LimbBits == 10

FracLimbs == 7

IntLimbs == 2

LimbBase == 2 ^ LimbBits

NumLimbs == FracLimbs + IntLimbs

RECURSIVE Zeros(_)
Zeros(len) == IF len <= 0 THEN <<>> ELSE <<0>> \o Zeros(len - 1)

\* The lowest len limbs of the natural v.
RECURSIVE LimbsOfInt(_, _)
LimbsOfInt(v, len) ==
    IF len <= 0 THEN <<>> ELSE <<v % LimbBase>> \o LimbsOfInt(v \div LimbBase, len - 1)

\* The magnitude of a natural below 2^20.
MagOfInt(v) == Zeros(FracLimbs) \o LimbsOfInt(v, IntLimbs)

\* The limb that holds bit idx (bits count from 1), and the bit's place in it.
LimbOf(idx) == ((idx - 1) \div LimbBits) + 1

PlaceOf(idx) == (idx - 1) % LimbBits

MagBit(u, idx) == (u[LimbOf(idx)] \div (2 ^ PlaceOf(idx))) % 2

\* The magnitude with the single bit idx set.
MagUnit(idx) ==
    Zeros(LimbOf(idx) - 1) \o <<2 ^ PlaceOf(idx)>> \o Zeros(NumLimbs - LimbOf(idx))

RECURSIVE AddFrom(_, _, _, _)
AddFrom(u, v, idx, carry) ==
    IF idx > NumLimbs THEN <<>>
    ELSE <<(u[idx] + v[idx] + carry) % LimbBase>>
             \o AddFrom(u, v, idx + 1, (u[idx] + v[idx] + carry) \div LimbBase)

MagAdd(u, v) == AddFrom(u, v, 1, 0)

\* u - v for u >= v.
RECURSIVE SubFrom(_, _, _, _)
SubFrom(u, v, idx, borrow) ==
    IF idx > NumLimbs THEN <<>>
    ELSE <<(u[idx] - v[idx] - borrow + LimbBase) % LimbBase>>
             \o SubFrom(u, v, idx + 1, IF u[idx] - v[idx] - borrow < 0 THEN 1 ELSE 0)

MagSub(u, v) == SubFrom(u, v, 1, 0)

\* u times the natural k.
RECURSIVE MulFrom(_, _, _, _)
MulFrom(u, k, idx, carry) ==
    IF idx > NumLimbs THEN <<>>
    ELSE <<(u[idx] * k + carry) % LimbBase>>
             \o MulFrom(u, k, idx + 1, (u[idx] * k + carry) \div LimbBase)

MagMul(u, k) == MulFrom(u, k, 1, 0)

\* u divided by the natural w > 0, from limb idx down: the quotient's limbs
\* down to the last of the fixed point, and the remainder left below it.
RECURSIVE DivFrom(_, _, _, _)
DivFrom(u, w, idx, rem) ==
    IF idx = 0 THEN [q |-> <<>>, r |-> rem]
    ELSE LET t == rem * LimbBase + u[idx]
             rest == DivFrom(u, w, idx - 1, t % w)
         IN  [q |-> Append(rest.q, t \div w), r |-> rest.r]

\* u / 2: the limbs from idx on, each taking the lowest bit of the next.
RECURSIVE HalfFrom(_, _)
HalfFrom(u, idx) ==
    IF idx > NumLimbs THEN <<>>
    ELSE <<(u[idx] \div 2)
              + (IF idx < NumLimbs THEN (u[idx + 1] % 2) * (LimbBase \div 2) ELSE 0)>>
             \o HalfFrom(u, idx + 1)

\* The number of bits of the natural v.
RECURSIVE BitLen(_)
BitLen(v) == IF v = 0 THEN 0 ELSE 1 + BitLen(v \div 2)

\* The highest bit set, 0 for the magnitude zero.
RECURSIVE MsbFrom(_, _)
MsbFrom(u, idx) ==
    IF idx = 0 THEN 0
    ELSE IF u[idx] # 0 THEN (idx - 1) * LimbBits + BitLen(u[idx])
    ELSE MsbFrom(u, idx - 1)

MagMsb(u) == MsbFrom(u, NumLimbs)

MagLess(u, v) ==
    LET diff == {i \in 1..NumLimbs : u[i] # v[i]}
    IN  diff # {} /\ LET top == CHOOSE i \in diff : \A j \in diff : j <= i
                     IN  u[top] < v[top]

\* u with the bits up to bit g cleared.
MagClearUpTo(u, g) ==
    Zeros(LimbOf(g) - 1)
        \o <<(u[LimbOf(g)] \div (2 ^ (PlaceOf(g) + 1))) * (2 ^ (PlaceOf(g) + 1))>>
        \o SubSeq(u, LimbOf(g) + 1, NumLimbs)

\* Round to nearest, ties to even, at 53 significant bits; sticky says that
\* the exact value has more below the fixed point's last bit.
MagRound(u, sticky) ==
    LET g == MagMsb(u) - F64_MANTISSA
    IN  IF g < 1 THEN u
        ELSE LET rest == \/ sticky
                         \/ \E i \in 1..(LimbOf(g) - 1) : u[i] # 0
                         \/ u[LimbOf(g)] % (2 ^ PlaceOf(g)) # 0
             IN  IF MagBit(u, g) = 1 /\ (rest \/ MagBit(u, g + 1) = 1)
                 THEN MagAdd(MagClearUpTo(u, g), MagUnit(g + 1))
                 ELSE MagClearUpTo(u, g)

F64(neg, mag) == [neg |-> neg, mag |-> mag]

\* An integer of the source as f64: exact.
F64OfInt(v) == F64(v < 0, MagOfInt(IF v < 0 THEN -v ELSE v))

F64IsZero(v) == MagMsb(v.mag) = 0

\* a + b
F64Add(a, b) ==
    IF a.neg = b.neg THEN F64(a.neg, MagRound(MagAdd(a.mag, b.mag), FALSE))
    ELSE IF a.mag = b.mag THEN F64(FALSE, MagOfInt(0))
    ELSE IF MagLess(a.mag, b.mag) THEN F64(b.neg, MagRound(MagSub(b.mag, a.mag), FALSE))
    ELSE F64(a.neg, MagRound(MagSub(a.mag, b.mag), FALSE))

\* a - b
F64Sub(a, b) == F64Add(a, F64(~b.neg, b.mag))

\* k * b for a whole number k >= 0 below 2^16.
F64MulInt(k, b) == F64(b.neg, MagRound(MagMul(b.mag, k), FALSE))

\* k / w for whole numbers k > 0 and w > 0.
F64DivInt(k, w) ==
    LET d == DivFrom(MagOfInt(k), w, NumLimbs, 0)
    IN  F64(FALSE, MagRound(d.q, d.r # 0))

\* a / 2.0: exact.
F64Half(a) == F64(a.neg, HalfFrom(a.mag, 1))

\* a <= b
F64Le(a, b) ==
    IF F64IsZero(a) /\ F64IsZero(b) THEN TRUE
    ELSE IF a.neg /\ ~b.neg THEN TRUE
    ELSE IF ~a.neg /\ b.neg THEN FALSE
    ELSE IF a.neg THEN ~MagLess(a.mag, b.mag)
    ELSE ~MagLess(b.mag, a.mag)

(***************************************************************************)
(* Scaling (src/src/scaling.rs): get_bounds and fit_polylines              *)
(*                                                                         *)
(* The source points and the target bounds are whole millimetres, written  *)
(* as integers; every computed value is an f64 as above.                   *)
(***************************************************************************)
Range(lo, hi) == [min |-> lo, max |-> hi]

Bounds(xr, yr) == [x |-> xr, y |-> yr]

\* self.max - self.min: exact for whole numbers.
spread(range) == range.max - range.min

\* Every coordinate pair of every polyline, in order.
RECURSIVE AllPoints(_)
AllPoints(polylines) ==
    IF polylines = <<>> THEN <<>> ELSE Head(polylines) \o AllPoints(Tail(polylines))

NoBounds == [x |-> Range(0, -1), y |-> Range(0, -1)]

\* get_bounds: the minima and maxima over all points, None without a point.
get_bounds(polylines) ==
    LET pts == AllPoints(polylines)
        xs == {pts[i][1] : i \in 1..Len(pts)}
        ys == {pts[i][2] : i \in 1..Len(pts)}
    IN  IF pts = <<>> THEN NoBounds
        ELSE Bounds(Range(CHOOSE v \in xs : \A w \in xs : v <= w,
                          CHOOSE v \in xs : \A w \in xs : v >= w),
                    Range(CHOOSE v \in ys : \A w \in ys : v <= w,
                          CHOOSE v \in ys : \A w \in ys : v >= w))

\* is_normal of target spread / current spread: the quotient of whole
\* numbers of this size is zero, infinite or NaN, or else normal.
FactorIsNormal(tspread, cspread) == tspread # 0 /\ cspread # 0

\* if factor.is_normal() { factor } else { 1.0 }
Factor(tspread, cspread) ==
    IF FactorIsNormal(tspread, cspread) THEN F64DivInt(tspread, cspread) ELSE F64OfInt(1)

partial_min(v1, v2) == IF F64Le(v1, v2) THEN v1 ELSE v2

scale_factor(target, current) ==
    partial_min(Factor(spread(target.x), spread(current.x)),
                Factor(spread(target.y), spread(current.y)))

\* (target_bounds.x.spread() - current_bounds.x.spread() * scale_factor) / 2.0
x_offset(target, current) ==
    F64Half(F64Sub(F64OfInt(spread(target.x)),
                   F64MulInt(spread(current.x), scale_factor(target, current))))

\* The new coordinates of one point.
FitPoint(pt, target, current, scale, xoff) ==
    << F64Add(F64Add(F64MulInt(pt[1] - current.x.min, scale), F64OfInt(target.x.min)), xoff),
       F64Add(F64MulInt(pt[2] - current.y.min, scale), F64OfInt(target.y.min)) >>

RECURSIVE FitPolyline(_, _, _, _, _)
FitPolyline(polyline, target, current, scale, xoff) ==
    IF polyline = <<>> THEN <<>>
    ELSE <<FitPoint(Head(polyline), target, current, scale, xoff)>>
             \o FitPolyline(Tail(polyline), target, current, scale, xoff)

RECURSIVE FitAll(_, _, _, _, _)
FitAll(polylines, target, current, scale, xoff) ==
    IF polylines = <<>> THEN <<>>
    ELSE <<FitPolyline(Head(polylines), target, current, scale, xoff)>>
             \o FitAll(Tail(polylines), target, current, scale, xoff)

\* The polylines as they are, each coordinate as f64.
RECURSIVE PolylineAsF64(_)
PolylineAsF64(polyline) ==
    IF polyline = <<>> THEN <<>>
    ELSE << <<F64OfInt(Head(polyline)[1]), F64OfInt(Head(polyline)[2])>> >>
             \o PolylineAsF64(Tail(polyline))

RECURSIVE AsF64(_)
AsF64(polylines) ==
    IF polylines = <<>> THEN <<>>
    ELSE <<PolylineAsF64(Head(polylines))>> \o AsF64(Tail(polylines))

\* fit_polylines(&mut polylines, &target_bounds): the Result and the
\* polylines afterwards.
fit_polylines(polylines, target) ==
    IF polylines = <<>> THEN [result |-> "ok", polylines |-> AsF64(polylines)]
    ELSE IF get_bounds(polylines) = NoBounds
         THEN [result |-> "err", polylines |-> AsF64(polylines)]
    ELSE LET current == get_bounds(polylines)
         IN  [result |-> "ok",
              polylines |-> FitAll(polylines, target, current,
                                   scale_factor(target, current),
                                   x_offset(target, current))]

(***************************************************************************)
(* The scaling specification: fit_polylines on bounded inputs              *)
(***************************************************************************)
\* The polylines of the inputs: none and one point, the drawings of the
\* tests of scaling.rs, a steep line, and a line through negative
\* coordinates.
FitPolylinePool ==
    { <<>>,
      << <<7, 12>> >>,
      << <<2, 2>>, <<5, 8>> >>,
      << <<2, 5>>, <<5, 5>> >>,
      << <<0, 0>>, <<1, 21>> >>,
      << <<-16, 47>>, <<10, 4>> >> }

FitPolylineLists == SeqsUpTo(FitPolylinePool, MaxPolylines)

\* The target of headless_start, the board with a padding of 5 (main.rs),
\* and the target of the tests.
FitTargets ==
    { Bounds(Range(5, IBB_WIDTH - 5), Range(5, IBB_HEIGHT - 5)),
      Bounds(Range(1, 4), Range(1, 3)) }

FitInit ==
    /\ DriverInit
    /\ CompilerIdle
    /\ CodecIdle
    /\ FixIdle
    /\ ModeIdle
    /\ EmitIdle
    /\ fit_in \in FitPolylineLists
    /\ fit_target \in FitTargets
    /\ fit_out = <<>>
    /\ fit_pc = "idle"

\* scaling::fit_polylines(&mut polylines, &bounds)
Fit ==
    /\ fit_pc = "idle"
    /\ LET ret == fit_polylines(fit_in, fit_target)
       IN  /\ fit_out' = ret.polylines
           /\ fit_pc' = ret.result
    /\ UNCHANGED << driverVars, compilerVars, codecVars, fixVars, modeVars, fit_in,
                    fit_target, emitVars >>

FitNext == Fit

SpecFit == FitInit /\ [][FitNext]_vars

(***************************************************************************)
(* Properties                                                              *)
(***************************************************************************)
\* The jobs whose handle has not been stopped.
ActiveJobs == {j \in 1..Len(jobs) : ~jobs[j].stopped}

\* The serial thread is between receiving a task and the end of its match arm.
Accepting == pc \in {"stop", "reset", "dispatch"}

\* Every block pushed so far, in the order of the pushes.
RECURSIVE Pushed(_)
Pushed(log) ==
    IF log = <<>> THEN <<>>
    ELSE Pushed(SubSeq(log, 1, Len(log) - 1)) \o BlocksOf(log[Len(log)].d)

\* The compiles job j has pushed before entry a of the history.
FiringsBefore(a, j) == Cardinality({e \in 1..(a - 1) : appends[e].job = j})

\* The serial thread is in its loop and not accepting a task.
Looping == pc \in {"poll", "read", "line", "write"}

IsPrefix(p, q) == Len(p) <= Len(q) /\ SubSeq(q, 1, Len(p)) = p

\* C1: at most one Scheduled task is active, and once the serial thread has
\* finished accepting a new task, no firing of a schedule stopped before
\* pushes blocks to the pending queue.
C1_StoppedScheduleNeverAppends ==
    [][ /\ Cardinality(ActiveJobs') <= 1
        /\ (exec_pc = "fetched" /\ jobs[exec_job].stopped /\ Looping)
               => blocks_queue' = blocks_queue ]_vars

\* C2: the k-th firing of a Scheduled job with N drawings (k = 0, 1, ...)
\* compiles sets[k mod N]: the drawings pushed by the job's firings are
\* sets[0], sets[1], ..., sets[N-1], sets[0], ... in turn.
C2_RoundRobin ==
    \A a \in 1..Len(appends) :
        appends[a].job # 0 =>
            LET sets == jobs[appends[a].job].sets
                k == FiringsBefore(a, appends[a].job)
            IN  /\ appends[a].i = k % Len(sets)
                /\ appends[a].d = sets[(k % Len(sets)) + 1]

\* A line that allows the next block: READY, or an ACK whose number parses
\* and is 1 or not below the current block.
QualifyingCue(line, cur) ==
    \/ line.t = "READY"
    \/ /\ line.t = "ACK"
       /\ ParseU32(line.digits) >= 0
       /\ (ParseU32(line.digits) = 1 \/ ParseU32(line.digits) >= cur)

\* C3: the thread never pipelines.  A block is popped only on a line just
\* read that is a qualifying cue, one block per line; it is the only block
\* written before the line is dropped and the loop starts over, and a line
\* is only had by reading the port.
C3_NoPipelining ==
    [][ /\ (pc' = "write" /\ pc # "write")
               => /\ pc = "line"
                  /\ QualifyingCue(buf, current_block)
                  /\ blocks_queue # <<>>
                  /\ block' = Head(blocks_queue)
                  /\ blocks_queue' = Tail(blocks_queue)
                  /\ buf' = buf
        /\ (wire' # wire)
               => /\ pc = "write"
                  /\ wire' = Append(wire, block)
                  /\ buf' = NoLine
                  /\ pc' = "poll"
        /\ (pc' = "line" /\ pc # "line") => (pc = "read" /\ buf' \in Lines)
        /\ (blocks_queue' # blocks_queue /\ ~IsPrefix(blocks_queue, blocks_queue'))
               => pc' = "write" /\ pc = "line" ]_vars

C3_Witness ==
    /\ Len(appends) = 1
    /\ appends[1].job = 0
    /\ appends[1].n = 1
    /\ wire = << BlockRef(appends[1].d, 1) >>
    /\ pc = "line"
    /\ buf.t = "OTHER"

\* C4: the queue is FIFO and acceptance only appends.  The blocks written,
\* the block being written and the queue are, in this order, exactly the
\* blocks pushed in the order of the pushes; and a step of the thread that
\* accepts a task keeps the queue as a prefix of the new queue.
C4_Fifo ==
    /\ [](wire \o (IF block = NoBlock THEN <<>> ELSE <<block>>) \o blocks_queue
              = Pushed(appends))
    /\ [][Accepting => IsPrefix(blocks_queue, blocks_queue')]_vars

C4_Witness ==
    /\ Len(appends) = 2
    /\ appends[1].job # 0
    /\ appends[2].job = 0
    /\ jobs[appends[1].job].stopped
    /\ Len(wire) = appends[1].n + 1
    /\ wire[Len(wire)] = BlockRef(appends[2].d, 1)

\* C5: with the queue not empty, an ACK whose number is the BlockNumber in
\* the header of the block written last makes the thread send the next block.
C5_AckOfLastBlockSends ==
    [][ ( /\ pc = "line"
          /\ pc' # "line"
          /\ blocks_queue # <<>>
          /\ wire # <<>>
          /\ buf.t = "ACK"
          /\ ParseU32(buf.digits) = HeaderNumber(BlockBytes(wire[Len(wire)])) )
            => (pc' = "write" /\ block' = Head(blocks_queue)) ]_vars

\* C6: the serial thread ends only when the intake channel is disconnected.
C6_EndsOnlyOnDisconnect == ThreadEnded => (~tx_alive /\ chan = <<>>)

\* C7: accepting a Scheduled task with an empty drawing list does nothing
\* beyond the replacement steps: the queue and current_block stay, no
\* schedule is active afterwards, and the loop goes on to the serial read.
C7_EmptyScheduleIsDiscarded ==
    [][ (pc = "dispatch" /\ pc' # "dispatch" /\ task.kind = "Scheduled" /\ task.sets = <<>>)
            => /\ blocks_queue' = blocks_queue
               /\ current_block' = current_block
               /\ ActiveJobs' = {}
               /\ pc' = "read" ]_vars

\* C8: with every Sender dropped and the channel empty, the loop exits at
\* its next poll; after the exit no block is written, whatever the queue holds.
C8_DisconnectExits ==
    [][ /\ (pc = "poll" /\ pc' # "poll" /\ ~tx_alive /\ chan = <<>>) => pc' = "done"
        /\ pc = "done" => (pc' = "done" /\ wire' = wire /\ block' = NoBlock) ]_vars

C8_Witness == pc = "done" /\ blocks_queue # <<>> /\ wire # <<>>

\* C9: when write_all or flush fails the loop goes on; the block was popped
\* and is not put back, current_block was incremented when it was popped,
\* and the other queued blocks stay as they are.
C9_WriteFailureLosesBlock ==
    [][ /\ (pc = "line" /\ pc' = "write")
               => /\ blocks_queue' = Tail(blocks_queue)
                  /\ block' = Head(blocks_queue)
                  /\ current_block' \in {current_block + 1, 2}
        /\ (pc = "write" /\ pc' # "write" /\ ~write_ok')
               => /\ pc' = "poll"
                  /\ blocks_queue' = blocks_queue
                  /\ current_block' = current_block
                  /\ block' = NoBlock
                  /\ lock' = "free" ]_vars

C9_Witness ==
    /\ ~write_ok
    /\ pc = "read"
    /\ Len(wire) = 1
    /\ blocks_queue # <<>>
    /\ current_block = 1

\* C10: every block into_blocks returns has a length L with 6 <= L <= 768
\* and (L - 6) mod 3 = 0, and starts with the BlockStart bytes FA 9F A1.
C10_BlockShape ==
    compiled =>
        \A k \in 1..Len(sketch_blocks) :
            /\ Len(sketch_blocks[k]) >= 6
            /\ Len(sketch_blocks[k]) <= 768
            /\ (Len(sketch_blocks[k]) - 6) % 3 = 0
            /\ SubSeq(sketch_blocks[k], 1, 3) = <<250, 159, 161>>

C10_Witness ==
    /\ compiled
    /\ sketch_erase
    /\ Len(sketch_blocks) = 3
    /\ Len(sketch_blocks[1]) = 768
    /\ Len(sketch_blocks[3]) < 768

(***************************************************************************)
(* Properties of the compiler                                              *)
(***************************************************************************)
\* block[i][6..] of every block, concatenated in order.
RECURSIVE Bodies(_)
Bodies(blocks) ==
    IF blocks = <<>> THEN <<>>
    ELSE SubSeq(Head(blocks), 7, Len(Head(blocks))) \o Bodies(Tail(blocks))

\* The i-th 3-byte group of a command stream (i from 1).
Triple(stream, i) == SubSeq(stream, 3 * i - 2, 3 * i)

\* The (x, y) a Move's 3 bytes carry: two packed 12-bit fields.
DecodeMove(t) == << t[1] * 16 + (t[2] \div 16), (t[2] % 16) * 256 + t[3] >>

\* C11: the k-th block of one into_blocks call (k from 0) carries
\* BlockNumber k + 1 in bytes 3..6: the numbers start at 1 and go up by one,
\* and no block has the number 0, among the blocks the serial thread queues
\* as well.
C11_BlockNumbering ==
    /\ compiled =>
           \A k \in 1..Len(sketch_blocks) :
               /\ sketch_blocks[k][4] = 250
               /\ sketch_blocks[k][5] = 144 + (k \div 256)
               /\ sketch_blocks[k][6] = k % 256
               /\ HeaderNumber(sketch_blocks[k]) = k
    /\ \A d \in DrawingIds : \A k \in 1..Len(CompiledBlocks(d)) :
           HeaderNumber(CompiledBlocks(d)[k]) = k

C11_Witness ==
    /\ compiled
    /\ Len(sketch_blocks) >= 3
    /\ HeaderNumber(sketch_blocks[3]) = 3

\* C12, as the claim states it: the stream of the block bodies begins with
\* StartDrawing, ends with StopDrawing, and the two commands just before
\* StopDrawing are PenLift and then Move(0, 0).
C12_StreamFramed_AsClaimed ==
    compiled =>
        LET stream == Bodies(sketch_blocks)
            c == Len(stream) \div 3
        IN  /\ c >= 4
            /\ Triple(stream, 1) = <<250, 31, 161>>
            /\ Triple(stream, c) = <<250, 32, 0>>
            /\ Triple(stream, c - 1) = <<0, 0, 0>>
            /\ Triple(stream, c - 2) = <<250, 48, 0>>

\* Whether into_blocks draws a polyline of the list at all.
DrawsSomething(polylines) == \E i \in 1..Len(polylines) : Len(polylines[i]) >= 2

\* C12, amended: the stream begins with StartDrawing and ends with
\* Move(0, 0), StopDrawing.  When a polyline of at least two points was
\* drawn, PenLift is the command just before that Move(0, 0); when none was,
\* the stream ends PenLift, Move(0, 0), Move(0, 0), StopDrawing.
C12_StreamFramed ==
    compiled =>
        LET stream == Bodies(sketch_blocks)
            c == Len(stream) \div 3
        IN  /\ c >= 5
            /\ Len(stream) = 3 * c
            /\ Triple(stream, 1) = <<250, 31, 161>>
            /\ Triple(stream, c) = <<250, 32, 0>>
            /\ Triple(stream, c - 1) = <<0, 0, 0>>
            /\ IF DrawsSomething(sketch_polylines)
               THEN Triple(stream, c - 2) = <<250, 48, 0>>
               ELSE /\ Triple(stream, c - 2) = <<0, 0, 0>>
                    /\ Triple(stream, c - 3) = <<250, 48, 0>>

C12_Witness ==
    /\ compiled
    /\ sketch_polylines # <<>>
    /\ ~DrawsSomething(sketch_polylines)
    /\ sketch_erase
    /\ Triple(Bodies(sketch_blocks), (Len(Bodies(sketch_blocks)) \div 3) - 2) = <<0, 0, 0>>

\* C13: every Move the compiler emits (polyline points after fixing, the
\* erase sweep, the moves home) decodes from its 3 bytes to the same (x, y),
\* with 0 <= x <= 3580 and 0 <= y <= 1230.
C13_MovePayload ==
    compiled =>
        LET stream == Bodies(sketch_blocks)
            cmds == SketchCommands(sketch_polylines, sketch_erase)
        IN  \A i \in 1..Len(cmds) :
                cmds[i].op = "Move" =>
                    /\ DecodeMove(Triple(stream, i)) = <<cmds[i].a, cmds[i].b>>
                    /\ DecodeMove(Triple(stream, i))[1] \in 0..3580
                    /\ DecodeMove(Triple(stream, i))[2] \in 0..1230

\* A compiled drawing with a point right of and below the board: its Move
\* is pinned to x = 3580, y = 0.
C13_Witness ==
    /\ compiled
    /\ ~sketch_erase
    /\ Len(sketch_polylines) = 1
    /\ Len(sketch_polylines[1]) >= 3
    /\ sketch_polylines[1][3] = <<4000, 2000>>
    /\ DecodeMove(Triple(Bodies(sketch_blocks), 7)) = <<3580, 0>>

\* C14: packing is greedy and lossless.  C commands give ceil(C / 254)
\* blocks, each but the last of 768 bytes, the last of
\* 6 + 3 * (C - 254 * (ceil(C / 254) - 1)) bytes, and the bodies together are
\* the command stream: 254 commands give one block of 768 bytes, 256
\* commands two blocks of 768 and 12 bytes.
C14_GreedyPacking ==
    compiled =>
        LET cmds == SketchCommands(sketch_polylines, sketch_erase)
            c == Len(cmds)
            nb == (c + 253) \div 254
        IN  /\ c >= 1
            /\ Len(sketch_blocks) = nb
            /\ \A k \in 1..(nb - 1) : Len(sketch_blocks[k]) = 768
            /\ Len(sketch_blocks[nb]) = 6 + 3 * (c - 254 * (nb - 1))
            /\ Bodies(sketch_blocks) = SketchBuf(cmds)
            /\ c = 254 => (nb = 1 /\ Len(sketch_blocks[1]) = 768)
            /\ c = 256 => (nb = 2 /\ Len(sketch_blocks[1]) = 768 /\ Len(sketch_blocks[2]) = 12)

C14_Witness ==
    /\ compiled
    /\ Len(SketchCommands(sketch_polylines, sketch_erase)) = 256
    /\ Len(sketch_blocks) = 2
    /\ Len(sketch_blocks[2]) = 12

\* The list without its polylines of fewer than two points.
Drawable(polylines) == SelectSeq(polylines, LAMBDA pl : Len(pl) >= 2)

\* C15: polylines of fewer than two points add no command: the blocks are
\* those of the list without them; and the empty list compiled without the
\* erase sweep gives the one 21-byte block BlockStart, BlockNumber(1),
\* StartDrawing, PenLift, Move(0, 0), Move(0, 0), StopDrawing.
C15_ShortPolylinesSkipped ==
    compiled =>
        /\ sketch_blocks = into_blocks(Drawable(sketch_polylines), sketch_erase)
        /\ (sketch_polylines = <<>> /\ ~sketch_erase) =>
               sketch_blocks = << << 250, 159, 161,  250, 144, 1,  250, 31, 161,
                                     250, 48, 0,  0, 0, 0,  0, 0, 0,  250, 32, 0 >> >>

C15_Witness ==
    /\ compiled
    /\ Len(sketch_polylines) = 2
    /\ Len(sketch_polylines[1]) = 1
    /\ Len(sketch_polylines[2]) = 2
    /\ Len(sketch_blocks) = 1
    /\ Len(sketch_blocks[1]) = 6 + 3 * 9

(***************************************************************************)
(* Properties of the codec, the fixing and the print modes                 *)
(***************************************************************************)
\* The 3 bytes the opcode table gives a command.
TableBytes(c) ==
    CASE c.op = "BlockStart"   -> <<250, 159, 161>>
      [] c.op = "BlockNumber"  -> <<250, 144 + (c.a \div 256), c.a % 256>>
      [] c.op = "StartDrawing" -> <<250, 31, 161>>
      [] c.op = "StopDrawing"  -> <<250, 32, 0>>
      [] c.op = "PenLift"      -> <<250, 48, 0>>
      [] c.op = "PenDown"      -> <<250, 64, 0>>
      [] c.op = "EnableEraser" -> <<250, 80, 0>>
      [] c.op = "Wait"         -> <<250, 96, c.a>>
      [] c.op = "Move"         -> << (c.a \div 16) % 256,
                                     BitOr((c.a % 16) * 16, (c.b \div 256) % 256),
                                     c.b % 256 >>

\* C16: every Command encodes to exactly 3 bytes, those of the opcode table
\* (a Move of two 12-bit fields decodes to them again); BlockNumber(n) with
\* n >= 4000 and Wait(s) with s > 30 fail fatally and give no bytes, and
\* nothing else does.
C16_Encoding ==
    /\ enc_pc = "returned" =>
           /\ Len(enc_bytes) = 3
           /\ \A i \in 1..3 : enc_bytes[i] \in 0..255
           /\ enc_bytes = TableBytes(enc_cmd)
           /\ (enc_cmd.op = "Move" /\ enc_cmd.a < 4096 /\ enc_cmd.b < 4096) =>
                  /\ DecodeMove(enc_bytes) = <<enc_cmd.a, enc_cmd.b>>
                  /\ enc_bytes[2] = (enc_cmd.a % 16) * 16 + (enc_cmd.b \div 256)
    /\ enc_pc = "panicked" => enc_bytes = <<>>
    /\ enc_pc # "idle" =>
           (enc_pc = "panicked" <=>
                \/ enc_cmd.op = "BlockNumber" /\ enc_cmd.a >= 4000
                \/ enc_cmd.op = "Wait" /\ enc_cmd.a > 30)

C16_Witness ==
    /\ enc_pc = "panicked"
    /\ enc_cmd = BlockNumber(4000)
    /\ enc_bytes = <<>>

\* clamp(v, lo, hi) on integers.
Clamp(v, lo, hi) == IF v < lo THEN lo ELSE IF v > hi THEN hi ELSE v

\* C17: for a source point (x, y) on the grid of tenths of a millimetre the
\* Move emitted has x_dev = trunc(clamp(x, 0, 358) * 10) and
\* y_dev = trunc(clamp(123 - y, 0, 123) * 10), which on the grid are the
\* tenths of the clamped values themselves; a point off the board is pinned
\* to the nearest edge.
C17_CoordinateFixing ==
    fix_pc = "returned" =>
        /\ fix_move.op = "Move"
        /\ fix_move.a = Clamp(fix_point[1], 0, 3580)
        /\ fix_move.b = Clamp(1230 - fix_point[2], 0, 1230)

\* C18: to_print_task maps Once to PrintTask::Once(polylines) and ScheduleN
\* to PrintTask::Scheduled with an interval of N * 60 seconds and a list of
\* exactly the one drawing given, so every firing's index picks that drawing.
C18_ToPrintTask ==
    pm_pc = "returned" =>
        IF pm_mode = "Once"
        THEN pm_task.kind = "Once" /\ pm_task.payload = pm_polylines
        ELSE /\ pm_task.kind = "Scheduled"
             /\ pm_task.interval =
                    (CASE pm_mode = "Schedule5"  -> 300
                       [] pm_mode = "Schedule15" -> 900
                       [] pm_mode = "Schedule30" -> 1800
                       [] pm_mode = "Schedule60" -> 3600)
             /\ pm_task.payload = <<pm_polylines>>
             /\ \A i \in 0..3 :
                    pm_task.payload[ScheduleIndex(i, Len(pm_task.payload)) + 1] = pm_polylines

C18_Witness ==
    /\ pm_pc = "returned"
    /\ pm_mode = "Schedule15"
    /\ pm_polylines # <<>>
    /\ pm_task.kind = "Scheduled"
    /\ pm_task.interval = 900

(***************************************************************************)
(* Properties of the scaling                                               *)
(***************************************************************************)
\* Both factors of fit_polylines are normal numbers.
BothFactorsNormal ==
    /\ get_bounds(fit_in) # NoBounds
    /\ FactorIsNormal(spread(fit_target.x), spread(get_bounds(fit_in).x))
    /\ FactorIsNormal(spread(fit_target.y), spread(get_bounds(fit_in).y))

\* The point lies inside the bounds, their edges included.
InsideBounds(pt, bounds) ==
    /\ F64Le(F64OfInt(bounds.x.min), pt[1])
    /\ F64Le(pt[1], F64OfInt(bounds.x.max))
    /\ F64Le(F64OfInt(bounds.y.min), pt[2])
    /\ F64Le(pt[2], F64OfInt(bounds.y.max))

\* C19: fit_polylines leaves an empty list of polylines unchanged and
\* returns Ok; it maps the points of the drawing's minimum y to the target's
\* minimum y; and whenever both factors are normal, every resulting point
\* lies inside the target bounds.
C19_FitsIntoTarget ==
    fit_pc # "idle" =>
        /\ fit_in = <<>> => (fit_pc = "ok" /\ fit_out = <<>>)
        /\ get_bounds(fit_in) # NoBounds =>
               /\ fit_pc = "ok"
               /\ \A i \in 1..Len(fit_in) : \A j \in 1..Len(fit_in[i]) :
                      /\ fit_in[i][j][2] = get_bounds(fit_in).y.min
                             => fit_out[i][j][2] = F64OfInt(fit_target.y.min)
                      /\ BothFactorsNormal => InsideBounds(fit_out[i][j], fit_target)

(***************************************************************************)
(* Properties of the block counter                                         *)
(***************************************************************************)
\* The block transmitted last: the one being written, else the last written.
LastSent == IF block # NoBlock THEN block ELSE wire[Len(wire)]

\* C20: current_block is 0 before any block has been sent, and afterwards
\* the BlockNumber in the header of the block transmitted last.
C20_CurrentBlockIsHeaderNumber ==
    IF block = NoBlock /\ wire = <<>>
    THEN current_block = 0
    ELSE current_block = HeaderNumber(BlockBytes(LastSent))

(***************************************************************************)
(* Properties of the send decision                                         *)
(***************************************************************************)
\* The number of an ACK line, -1 when it does not parse as u32.
AckNumber(line) == IF line.t = "ACK" THEN ParseU32(line.digits) ELSE -1

\* C21: with the queue not empty, a line makes the thread send if and only
\* if it is "CL STATUS=READY" or an ACK whose number n parses as u32 with
\* n = 1, n = current_block or n > current_block; a line that does not start
\* with "CL ", another CL line, an ACK with 1 < n < current_block, with n = 0
\* and current_block > 0, or with a number that does not parse, sends nothing.
C21_SendDecisionTable ==
    [][ (pc = "line" /\ pc' # "line" /\ blocks_queue # <<>>) =>
            LET n == AckNumber(buf)
            IN  /\ (pc' = "write" /\ block' = Head(blocks_queue))
                       <=> \/ buf.t = "READY"
                           \/ /\ buf.t = "ACK"
                              /\ n # -1
                              /\ (n = 1 \/ n = current_block \/ n > current_block)
                /\ ( \/ buf.t \in {"OTHER", "CL"}
                     \/ /\ buf.t = "ACK"
                        /\ \/ n = -1
                           \/ 1 < n /\ n < current_block
                           \/ n = 0 /\ current_block > 0 )
                       => (pc' = "poll" /\ block' = NoBlock /\ wire' = wire) ]_vars

\* The thread holds an ACK for block 2 with current_block = 3 and blocks left.
C21_Witness ==
    /\ pc = "line"
    /\ buf = Line("ACK", <<2>>)
    /\ current_block = 3
    /\ blocks_queue # <<>>

\* C22: an ACK with n > current_block and n # 1, with the queue not empty,
\* pops exactly the front block and ends the step with current_block = 2,
\* whatever current_block was and whatever number the block carries; the
\* write that follows transmits that block and leaves current_block at 2.
C22_AckResetRecovery ==
    [][ /\ ( /\ pc = "line"
             /\ pc' # "line"
             /\ blocks_queue # <<>>
             /\ AckNumber(buf) # -1
             /\ AckNumber(buf) # 1
             /\ AckNumber(buf) > current_block )
            => /\ current_block' = 2
               /\ block' = Head(blocks_queue)
               /\ blocks_queue' = Tail(blocks_queue)
               /\ wire' = wire
               /\ pc' = "write"
        /\ (pc = "write" /\ pc' # "write")
            => /\ wire' = Append(wire, block)
               /\ current_block' = current_block ]_vars

\* After three sends a block numbered 2 goes out on ACK 9: current_block,
\* which was 3, is 2.
C22_Witness ==
    /\ pc = "write"
    /\ buf = Line("ACK", <<9>>)
    /\ Len(wire) = 3
    /\ current_block = 2
    /\ HeaderNumber(BlockBytes(block)) = 2

\* C23: a pass through the serial part of the loop that does not send leaves
\* the queue and current_block as they are: a read timeout, a line that is
\* not a qualifying cue, and any line while the queue is empty, an ACK above
\* current_block among them.
C23_NoSendChangesNothing ==
    [][ /\ (pc = "read" /\ pc' = "poll")
            => /\ blocks_queue' = blocks_queue
               /\ current_block' = current_block
               /\ wire' = wire
        /\ ( /\ pc = "line"
             /\ pc' # "line"
             /\ (blocks_queue = <<>> \/ ~QualifyingCue(buf, current_block)) )
            => /\ pc' = "poll"
               /\ blocks_queue' = blocks_queue
               /\ current_block' = current_block
               /\ block' = NoBlock
               /\ wire' = wire ]_vars

\* An ACK above current_block has been read with the queue empty.
C23_Witness ==
    /\ pc = "line"
    /\ buf = Line("ACK", <<9>>)
    /\ blocks_queue = <<>>
    /\ current_block = 1
    /\ Len(wire) = 1

(***************************************************************************)
(* Properties of the schedule and the mutex                                *)
(***************************************************************************)
\* C24: the first firing of every accepted Scheduled task compiles sets[0],
\* whatever firings of the schedule before it do meanwhile.
C24_FirstFiringCompilesFirstSet ==
    \A a \in 1..Len(appends) :
        (appends[a].job # 0 /\ FiringsBefore(a, appends[a].job) = 0)
            => /\ appends[a].i = 0
               /\ appends[a].d = jobs[appends[a].job].sets[1]

\* C25: the mutex of the queue is not held while a block is written and
\* flushed.
C25_NoLockDuringWrite == pc = "write" => lock = "free"

\* The blocks of each compile lie together in the queue, in the order of
\* their numbers: a block that is not the first of its compile follows its
\* predecessor unless it is the front, and a block that is not the last of
\* its compile is followed by its successor.
Contiguous(queue) ==
    \A p \in 1..Len(queue) :
        /\ (queue[p].k > 1 /\ p > 1) => queue[p - 1] = BlockRef(queue[p].d, queue[p].k - 1)
        /\ queue[p].k < Len(CompiledBlocks(queue[p].d))
               => /\ p < Len(queue)
                  /\ queue[p + 1] = BlockRef(queue[p].d, queue[p].k + 1)

\* C26: a compile is appended in one piece.  Every step that appends to the
\* queue appends all blocks of one compile, in the order of their numbers,
\* and at no time does the queue hold a part of a compile other than the
\* rest of the one being sent from its front.
C26_AtomicAppend ==
    /\ []Contiguous(blocks_queue)
    /\ [][ (blocks_queue' # blocks_queue /\ IsPrefix(blocks_queue, blocks_queue'))
               => \E d \in DrawingIds :
                      /\ blocks_queue' = blocks_queue \o BlocksOf(d)
                      /\ \A k \in 1..Len(BlocksOf(d)) :
                             HeaderNumber(BlockBytes(BlocksOf(d)[k])) = k ]_vars

\* The thread and a firing have each pushed a compile, one of them of two
\* blocks, and the thread is about to look at the queue.
C26_Witness ==
    /\ Len(appends) = 2
    /\ appends[1].job = 0
    /\ appends[2].job # 0
    /\ appends[1].n = 2
    /\ blocks_queue = Pushed(appends)
    /\ pc = "line"

\* C27: the steps of a firing leave the port, current_block and the handle
\* in current_job alone; the firing adds exactly 1 to the iteration counter
\* and appends the blocks of one compile to the queue.
C27_FiringFrame ==
    [][ exec_pc' # exec_pc =>
            /\ wire' = wire
            /\ block' = block
            /\ write_ok' = write_ok
            /\ current_block' = current_block
            /\ current_job' = current_job
            /\ jobs' = jobs
            /\ pc' = pc
            /\ (exec_pc = "idle" => (iteration' = iteration /\ blocks_queue' = blocks_queue))
            /\ (exec_pc = "called" => (iteration' = iteration + 1 /\ blocks_queue' = blocks_queue))
            /\ (exec_pc = "fetched" =>
                    /\ iteration' = iteration
                    /\ \E d \in DrawingIds : blocks_queue' = blocks_queue \o BlocksOf(d)) ]_vars

\* A firing has run to its end after the thread has sent a block.
C27_Witness ==
    /\ exec_pc = "idle"
    /\ Len(appends) = 2
    /\ appends[2].job # 0
    /\ current_block = 1
    /\ Len(wire) = 1
    /\ iteration = 1

(***************************************************************************)
(* Properties of the sketch, step by step                                  *)
(***************************************************************************)
\* The erase sweep is over.
Swept == sketch_erase /\ emit_pc \in {"polylines", "done"}

Floor0(v) == IF v < 0 THEN 0 ELSE v

\* The four moves of the turn of the erase loop that starts at y.
SweepTurn(y) ==
    << Move(3580, 10 * y),
       Move(3580, 10 * Floor0(y - 10)),
       Move(0, 10 * Floor0(y - 10)),
       Move(0, 10 * Floor0(Floor0(y - 10) - 10)) >>

\* The sweep as stated: one turn for each y = 123, 103, ... above 0.
RECURSIVE SweepFrom(_)
SweepFrom(y) == IF y <= 0 THEN <<>> ELSE SweepTurn(y) \o SweepFrom(y - 20)

\* C28: the erase sweep ends, and has the stated shape: PenLift,
\* Move(0, 1230), EnableEraser, then for each turn of the loop the four moves
\* Move(3580, 10y), Move(3580, 10y'), Move(0, 10y'), Move(0, 10y'') with
\* each step to max(0, y - 10), then PenLift, Move(0, 0); the y of the moves
\* never goes up, y never goes up in the loop, and the loop ends with y = 0.
C28_EraseSweep ==
    /\ [](Swept =>
            /\ erase_y = 0
            /\ Len(added) >= 34
            /\ SubSeq(added, 2, 4) = <<PenLift, Move(0, 1230), EnableEraser>>
            /\ SubSeq(added, 5, 32) = SweepFrom(123)
            /\ SubSeq(added, 33, 34) = <<PenLift, Move(0, 0)>>
            /\ \A i \in 5..31 : added[i].op = "Move" /\ added[i + 1].b <= added[i].b)
    /\ [][ (emit_pc \in {"erase_loop", "erase_left"}) => (erase_y' <= erase_y) ]_vars
    /\ [](emit_pc \in {"erase_loop", "erase_left"} => erase_y \in 0..IBB_HEIGHT)
    /\ (sketch_erase ~> Swept)

\* The sweep is over, the loop having run seven times from y = 123 to y = 0.
C28_Witness ==
    /\ Swept
    /\ emit_pc = "polylines"
    /\ erase_y = 0
    /\ Len(added) = 34
    /\ added[29] = Move(3580, 30)
    /\ added[32] = Move(0, 0)

\* Whether the pen is up before command i: the last of PenDown, PenLift and
\* EnableEraser before it is not PenDown.
PenUpBefore(cmds, i) ==
    LET pens == {j \in 1..(i - 1) : cmds[j].op \in {"PenDown", "PenLift", "EnableEraser"}}
    IN  /\ pens # {}
        /\ cmds[CHOOSE j \in pens : \A l \in pens : l <= j].op # "PenDown"

\* The places of the PenDown commands, in order.
PenDowns(cmds) == SelectSeq([i \in 1..Len(cmds) |-> i], LAMBDA i : cmds[i].op = "PenDown")

\* The next command after place i that is not a Move, 0 if there is none.
NextNonMove(cmds, i) ==
    LET later == {j \in (i + 1)..Len(cmds) : cmds[j].op # "Move"}
    IN  IF later = {} THEN 0 ELSE CHOOSE j \in later : \A l \in later : j <= l

\* C30: in the commands into_blocks has added, the n-th PenDown comes right
\* after the Move to the first point of the n-th polyline of two points or
\* more, and the pen is up at that Move; each PenDown is followed by a Move,
\* and the moves after it end with a PenLift; at the end there are as many
\* PenDown as such polylines, and the pen is up at the last Move(0, 0).
C30_PenDiscipline ==
    LET downs == PenDowns(added)
        drawn == Drawable(sketch_polylines)
    IN  /\ Len(downs) <= Len(drawn)
        /\ \A n \in 1..Len(downs) :
               LET i == downs[n]
               IN  /\ i > 1
                   /\ added[i - 1] = Move(DevX(drawn[n][1][1]), DevY(drawn[n][1][2]))
                   /\ PenUpBefore(added, i - 1)
                   /\ i < Len(added)
                   /\ added[i + 1].op = "Move"
                   /\ NextNonMove(added, i) # 0
                   /\ added[NextNonMove(added, i)].op = "PenLift"
        /\ emit_pc = "done" =>
               /\ Len(downs) = Len(drawn)
               /\ added[Len(added)] = StopDrawing
               /\ added[Len(added) - 1] = Move(0, 0)
               /\ PenUpBefore(added, Len(added) - 1)
               /\ Bodies(sketch_blocks) = SketchBuf(added)

\* Two polylines have been drawn after the sweep, the second of three points.
C30_Witness ==
    /\ emit_pc = "done"
    /\ sketch_erase
    /\ Len(PenDowns(added)) = 2
    /\ Len(sketch_polylines[2]) = 3

(***************************************************************************)
(* Properties of the poisoned mutex                                        *)
(***************************************************************************)
\* C29: with the mutex of the queue poisoned the thread neither ends nor
\* panics over it: accepting a Once task goes on to the serial read, a line
\* read goes back to the poll with nothing sent and nothing changed, and no
\* step of the thread panics; the step that poisons the mutex is a closure's
\* and leaves the thread where it is.
C29_PoisonedMutexIsSurvived ==
    [][ /\ (poisoned /\ pc = "dispatch" /\ pc' # pc /\ task.kind = "Once")
               => (pc' = "read" /\ blocks_queue' = blocks_queue)
        /\ (poisoned /\ pc = "line" /\ pc' # pc)
               => /\ pc' = "poll"
                  /\ blocks_queue' = blocks_queue
                  /\ current_block' = current_block
                  /\ block' = NoBlock
                  /\ wire' = wire
        /\ (poisoned /\ pc' # pc) => pc' # "panicked"
        /\ (~poisoned /\ poisoned') => (pc' = pc /\ exec_pc = "fetched") ]_vars

\* With the mutex poisoned and a block left in the queue, the thread has
\* read a READY line after it went through the poll again.
C29_Witness ==
    /\ poisoned
    /\ blocks_queue # <<>>
    /\ sent_count = 2
    /\ chan = <<>>
    /\ pc = "line"
    /\ buf.t = "READY"


(***************************************************************************)
(* Properties of the frames of a block body                                *)
(***************************************************************************)
\* The commands a full block body holds: (block_size - 6) / 3.
FramesPerBlock == (BLOCK_SIZE - 6) \div 3

\* The 3-byte frames that are BlockStart, StartDrawing, StopDrawing or a
\* BlockNumber.
IsFramingCommand(t) ==
    \/ t = to_bytes(BlockStart)
    \/ t = to_bytes(StartDrawing)
    \/ t = to_bytes(StopDrawing)
    \/ t[1] = 250 /\ t[2] \div 16 = 9

\* C31: no Move the compiler emits has the first byte 0xFA: its x is at most
\* 3580, and of the 12-bit values of x only 4000..4015 give that byte.  The
\* body of every block is a whole number of 3-byte frames, the i-th frame of
\* the k-th block is the command 254 * (k - 1) + i of the sketch, and that
\* frame starts with 0xFA exactly when the command is not a Move; the frame of
\* a Move is none of BlockStart, BlockNumber, StartDrawing and StopDrawing.
C31_MoveIsNeverControl ==
    /\ \A x \in 0..4095 : (to_bytes(Move(x, 0))[1] = 250) <=> (x \in 4000..4015)
    /\ compiled =>
           LET cmds == SketchCommands(sketch_polylines, sketch_erase)
           IN  \A k \in 1..Len(sketch_blocks) :
                   LET body == SubSeq(sketch_blocks[k], 7, Len(sketch_blocks[k]))
                   IN  /\ Len(body) % 3 = 0
                       /\ FramesPerBlock * (k - 1) + (Len(body) \div 3) <= Len(cmds)
                       /\ \A i \in 1..(Len(body) \div 3) :
                              LET c == cmds[FramesPerBlock * (k - 1) + i]
                                  t == Triple(body, i)
                              IN  /\ t = to_bytes(c)
                                  /\ (c.op = "Move") <=> (t[1] # 250)
                                  /\ (c.op = "Move") =>
                                         /\ c.a <= IBB_WIDTH * 10
                                         /\ ~IsFramingCommand(t)

\* Two polylines of 217 points have been compiled after the sweep into two
\* blocks; the third frame of the second block is the Move of a point right
\* of and below the board, pinned to x = 3580 (first byte 0xDF).
C31_Witness ==
    /\ compiled
    /\ sketch_erase
    /\ Len(sketch_blocks) = 2
    /\ Len(sketch_polylines) = 2
    /\ Len(sketch_polylines[1]) = 217
    /\ Len(sketch_polylines[2]) = 217
    /\ sketch_polylines[2][3] = <<4000, 2000>>
    /\ Triple(SubSeq(sketch_blocks[2], 7, Len(sketch_blocks[2])), 3) = <<223, 192, 0>>


(***************************************************************************)
(* Properties of the draining of the queue                                 *)
(***************************************************************************)
\* The thread has read the line "CL STATUS=READY".
ReadyRead == pc = "line" /\ buf.t = "READY"

\* The device sends "CL STATUS=READY" again and again: a thread that keeps
\* reading lines keeps reading that one.
ReadyInfinitelyOften == []<>(pc = "read") => []<>ReadyRead

\* Every block pushed has been handed to the serial port, and none is left.
Drained == blocks_queue = <<>> /\ block = NoBlock /\ wire = Pushed(appends)

\* C32: if a Sender of the channel stays alive, from some point on no task
\* is in the channel or being accepted and no schedule is active, every write and flush succeeds and the
\* device sends "CL STATUS=READY" infinitely often, then every block pushed
\* to the queue is eventually transmitted and the queue is empty from some
\* point on.
C32_QueueDrains ==
    ( /\ []tx_alive
      /\ <>[](chan = <<>> /\ ~Accepting)
      /\ <>[](ActiveJobs = {})
      /\ []write_ok
      /\ ReadyInfinitelyOften )
        => <>[]Drained

=============================================================================
